---- MODULE Spec2Model ----
(***************************************************************************)
(* Model of example/zcat/zcat.c: the decode() pump that reads compressed   *)
(* bytes from stdin into src_buffer, drives an incremental decoder, and    *)
(* writes the decoded bytes from dst_buffer to stdout.                     *)
(*                                                                         *)
(* The pump (decode(), lines 76-139) is translated statement by statement. *)
(* The decoder and wuffs_base__io_buffer__compact live in the Wuffs        *)
(* release header, which is not part of the sources at hand; the decoder   *)
(* is modelled as a small resumable token decoder that obeys the decoder   *)
(* contract (it advances src.ri and dst.wi inside the regions it is given  *)
(* and answers with a status), and compaction as the specification states  *)
(* it.                                                                     *)
(***************************************************************************)
EXTENDS Integers, Sequences, FiniteSets, TLC

(***************************************************************************)
(* Bounds of the model.                                                    *)
(***************************************************************************)
MaxStream == 3
MaxSrcCap == 3
MaxDstCap == 2

(***************************************************************************)
(* The toy format the modelled decoder understands.  A stream is a         *)
(* sequence of tokens:                                                     *)
(*   END        ends the stream (the decoder answers ok),                  *)
(*   LIT        decodes to one byte LIT,                                   *)
(*   RUN v      decodes to RunLen bytes v (v = END is malformed),          *)
(*   NOTE       makes the decoder answer a status that is neither an       *)
(*              error, nor ok, nor one of the two suspensions.             *)
(* RUN needs Lookahead bytes of pending input before it consumes anything. *)
(***************************************************************************)
END == 0
LIT == 1
RUN == 2
NOTE == 3
Bytes == {END, LIT, RUN, NOTE}
RunLen == 2
Lookahead == 2

(***************************************************************************)
(* Statuses.  wuffs_base__status is a const char*; NULL means ok.          *)
(***************************************************************************)
StatusOk == "ok"
ShortRead == "$short read"
ShortWrite == "$short write"
BadData == "?bad data"
UnexpectedEOF == "?unexpected EOF"
NoteStatus == "@note"
NoStatus == "none"
FatalStatuses == {BadData, UnexpectedEOF}
ErrIO == "strerror(EIO)"
NoProgress == "internal error: no I/O progress possible"

VARIABLES
  stream,     \* the bytes stdin will deliver, in order
  srcCap,     \* SRC_BUFFER_SIZE
  dstCap,     \* DST_BUFFER_SIZE
  eofStrict,  \* decoder family: does it turn a short read on a closed reader into an error
  pos,        \* number of stream bytes already returned by read()
  src,        \* wuffs_base__io_buffer src: data, ri, wi, closed
  dst,        \* wuffs_base__io_buffer dst: data, ri, wi, closed
  dec,        \* wuffs_gzip__decoder dec: the resumable decoder state
  z,          \* the status of the last decoder call
  pc,         \* position of decode(): "read", "decode", "flush", "dispatch", "compact", "done"
  result,     \* the value decode() returned ("none" while running)
  sunk,       \* history: bytes stdout accepted
  produced,   \* history: bytes the decoder wrote into dst
  eaten,      \* history: bytes the decoder consumed from src
  ev,         \* history: the last external call and its outcome
  wr,         \* history: what went wrong on stdout so far: short, intr, err
  offered,    \* history: bytes handed to write(), accepted or not
  drained     \* history: bytes the decoder consumed since the last successful read

vars == <<stream, srcCap, dstCap, eofStrict, pos, src, dst, dec, z, pc, result,
          sunk, produced, eaten, ev, wr, offered, drained>>

params == <<stream, srcCap, dstCap, eofStrict>>

RECURSIVE SeqsUpTo(_)
SeqsUpTo(n) ==
  IF n = 0 THEN {<<>>}
  ELSE LET S == SeqsUpTo(n - 1)
       IN  S \cup {Append(s, b) : s \in {t \in S : Len(t) = n - 1}, b \in Bytes}

Min(a, b) == IF a < b THEN a ELSE b

(***************************************************************************)
(* wuffs_base__io_buffer: a fixed array plus the cursors ri <= wi and the  *)
(* closed flag.  The arrays are static storage, so they start zeroed.      *)
(***************************************************************************)
EmptyBuffer(cap) ==
  [data |-> [i \in 1..cap |-> 0], ri |-> 0, wi |-> 0, closed |-> FALSE]

Pending(b) == [i \in 1..(b.wi - b.ri) |-> b.data[b.ri + i]]

\* wuffs_base__io_buffer__compact: move [ri, wi) to offset 0.
BufferCompact(b) ==
  IF b.ri = 0 THEN b
  ELSE LET n == b.wi - b.ri
       IN  [b EXCEPT !.data = [i \in DOMAIN b.data |->
                                 IF i <= n THEN b.data[b.ri + i] ELSE b.data[i]],
                     !.wi = n,
                     !.ri = 0]

\* Store the bytes s into b.data starting at offset b.wi and advance wi.
BufferPut(b, s) ==
  [b EXCEPT !.data = [i \in DOMAIN b.data |->
                        IF i > b.wi /\ i <= b.wi + Len(s) THEN s[i - b.wi]
                        ELSE b.data[i]],
            !.wi = b.wi + Len(s)]

(***************************************************************************)
(* The decoder step.  DecRun is the coroutine body: it resumes a pending   *)
(* run, then consumes tokens from the pending input `in` until it has to   *)
(* stop.  It returns the status, the number of bytes consumed, the bytes   *)
(* produced and the decoder state to resume from.                          *)
(***************************************************************************)
NeedInput(closed, strict) ==
  IF closed /\ strict THEN UnexpectedEOF ELSE ShortRead

RECURSIVE DecRun(_, _, _, _, _, _, _)
DecRun(d, in, used, out, room, closed, strict) ==
  LET stop(st) == [st |-> st, used |-> used, out |-> out, dec |-> d]
  IN
  IF d.rem > 0
  THEN IF room = 0 THEN stop(ShortWrite)
       ELSE DecRun([d EXCEPT !.rem = d.rem - 1], in, used,
                   Append(out, d.val), room - 1, closed, strict)
  ELSE IF in = <<>> THEN stop(NeedInput(closed, strict))
  ELSE IF Head(in) = END
       THEN [st |-> StatusOk, used |-> used + 1, out |-> out, dec |-> d]
  ELSE IF Head(in) = NOTE
       THEN [st |-> NoteStatus, used |-> used + 1, out |-> out, dec |-> d]
  ELSE IF Head(in) = LIT
       THEN IF room = 0 THEN stop(ShortWrite)
            ELSE DecRun(d, Tail(in), used + 1, Append(out, LIT), room - 1,
                        closed, strict)
  ELSE \* RUN
       IF Len(in) < Lookahead THEN stop(NeedInput(closed, strict))
       ELSE IF in[2] = END THEN stop(BadData)
       ELSE DecRun([rem |-> RunLen, val |-> in[2]], Tail(Tail(in)), used + 2,
                   out, room, closed, strict)

\* wuffs_gzip__decoder__decode(&dec, writer(&dst), reader(&src))
DecoderDecode(d, dstBuf, srcBuf, strict) ==
  DecRun(d, Pending(srcBuf), 0, <<>>, Len(dstBuf.data) - dstBuf.wi,
         srcBuf.closed, strict)

(***************************************************************************)
(* Initial state: decode() after lines 77-95.                              *)
(***************************************************************************)
Init ==
  /\ stream \in SeqsUpTo(MaxStream)
  /\ srcCap \in 1..MaxSrcCap
  /\ dstCap \in 1..MaxDstCap
  /\ eofStrict \in BOOLEAN
  /\ pos = 0
  /\ src = EmptyBuffer(srcCap)
  /\ dst = EmptyBuffer(dstCap)
  /\ dec = [rem |-> 0, val |-> 0]
  /\ z = NoStatus
  /\ pc = "read"
  /\ result = NoStatus
  /\ sunk = <<>>
  /\ produced = <<>>
  /\ eaten = <<>>
  /\ ev = "start"
  /\ wr = [short |-> FALSE, intr |-> FALSE, err |-> FALSE]
  /\ offered = <<>>
  /\ drained = 0

(***************************************************************************)
(* Lines 99-110: read(stdin_fd, src.data.ptr + src.meta.wi, len - wi).     *)
(***************************************************************************)
ReadCount == srcCap - src.wi

\* ReadIntr without the errno test: EINTR returns like any other error.
ReadIntr_fatal ==
  /\ pc = "read"
  /\ pc' = "done"
  /\ result' = ErrIO
  /\ ev' = "read:EINTR"
  /\ UNCHANGED <<offered, drained, params, pos, src, dst, dec, z, sunk, produced,
                 eaten, wr>>

\* n < 0 with errno == EINTR: continue (back to the read).
ReadIntr ==
  /\ pc = "read"
  /\ ev' = "read:EINTR"
  /\ UNCHANGED <<offered, drained, params, pos, src, dst, dec, z, pc, result, sunk, produced,
                 eaten, wr>>

\* ReadErr with every errno handled like EINTR.
ReadErr_retry ==
  /\ pc = "read"
  /\ ev' = "read:error"
  /\ UNCHANGED <<offered, drained, params, pos, src, dst, dec, z, pc, result, sunk, produced,
                 eaten, wr>>

\* n < 0 with any other errno: return strerror(errno).
ReadErr ==
  /\ pc = "read"
  /\ pc' = "done"
  /\ result' = ErrIO
  /\ ev' = "read:error"
  /\ UNCHANGED <<offered, drained, params, pos, src, dst, dec, z, sunk, produced, eaten, wr>>

\* ReadData that reads to src.data.ptr instead of src.data.ptr + src.meta.wi.
ReadData_at0 ==
  /\ pc = "read"
  /\ \E n \in 1..Min(ReadCount, Len(stream) - pos) :
       /\ src' = [src EXCEPT !.data = [i \in DOMAIN src.data |->
                                         IF i <= n THEN stream[pos + i]
                                         ELSE src.data[i]],
                             !.wi = src.wi + n]
       /\ pos' = pos + n
  /\ pc' = "decode"
  /\ ev' = "read:data"
  /\ drained' = 0
  /\ UNCHANGED <<offered, params, dst, dec, z, result, sunk, produced, eaten, wr>>

\* ReadData that asks for src.data.len bytes instead of src.data.len - src.meta.wi.
ReadData_fullcount ==
  /\ pc = "read"
  /\ \E n \in 1..Min(srcCap, Len(stream) - pos) :
       /\ src' = BufferPut(src, SubSeq(stream, pos + 1, pos + n))
       /\ pos' = pos + n
  /\ pc' = "decode"
  /\ ev' = "read:data"
  /\ drained' = 0
  /\ UNCHANGED <<offered, params, dst, dec, z, result, sunk, produced, eaten, wr>>

\* n > 0: src.meta.wi += n.
ReadData ==
  /\ pc = "read"
  /\ \E n \in 1..Min(ReadCount, Len(stream) - pos) :
       /\ src' = BufferPut(src, SubSeq(stream, pos + 1, pos + n))
       /\ pos' = pos + n
  /\ pc' = "decode"
  /\ ev' = "read:data"
  /\ drained' = 0
  /\ UNCHANGED <<offered, params, dst, dec, z, result, sunk, produced, eaten, wr>>

\* n == 0 (end of input, or a read of zero bytes): src.meta.closed = true.
ReadEof ==
  /\ pc = "read"
  /\ (pos = Len(stream) \/ ReadCount = 0)
  /\ src' = [src EXCEPT !.closed = TRUE]
  /\ pc' = "decode"
  /\ ev' = "read:eof"
  /\ drained' = 0
  /\ UNCHANGED <<offered, params, pos, dst, dec, z, result, sunk, produced, eaten, wr>>

(***************************************************************************)
(* Lines 113-115: one decoder call.                                        *)
(***************************************************************************)
Decode ==
  /\ pc = "decode"
  /\ LET r == DecoderDecode(dec, dst, src, eofStrict)
     IN  /\ z' = r.st
         /\ dec' = r.dec
         /\ src' = [src EXCEPT !.ri = src.ri + r.used]
         /\ dst' = BufferPut(dst, r.out)
         /\ produced' = produced \o r.out
         /\ eaten' = eaten \o SubSeq(Pending(src), 1, r.used)
         /\ drained' = drained + r.used
  /\ pc' = "flush"
  /\ ev' = "decode"
  /\ UNCHANGED <<offered, params, pos, result, sunk, wr>>

(***************************************************************************)
(* Lines 117-123: if (dst.meta.wi) { write(stdout_fd, dst_buffer, wi);     *)
(* dst.meta.ri = dst.meta.wi; compact(&dst); }  The value write() returns  *)
(* is ignored, so every outcome of the call leads to the same pump state.  *)
(***************************************************************************)
\* FlushDone without the compaction of line 122.
FlushDone_nocompact == [dst EXCEPT !.ri = dst.wi]

FlushDone == BufferCompact([dst EXCEPT !.ri = dst.wi])

\* FlushNothing taken whatever dst.meta.wi is: the write is skipped.
FlushNothing_skip ==
  /\ pc = "flush"
  /\ pc' = "dispatch"
  /\ UNCHANGED <<offered, drained, params, pos, src, dst, dec, z, result, sunk, produced, eaten,
                 ev, wr>>

FlushNothing ==
  /\ pc = "flush"
  /\ dst.wi = 0
  /\ pc' = "dispatch"
  /\ UNCHANGED <<offered, drained, params, pos, src, dst, dec, z, result, sunk, produced, eaten,
                 ev, wr>>

\* write() accepts k of the dst.wi bytes offered, 1 <= k <= dst.wi.
FlushWrite ==
  /\ pc = "flush"
  /\ dst.wi # 0
  /\ \E k \in 1..dst.wi :
       /\ sunk' = sunk \o SubSeq(dst.data, 1, k)
       /\ wr' = [wr EXCEPT !.short = wr.short \/ k < dst.wi]
  /\ dst' = FlushDone
  /\ pc' = "dispatch"
  /\ ev' = "write:data"
  /\ offered' = offered \o SubSeq(dst.data, 1, dst.wi)
  /\ UNCHANGED <<drained, params, pos, src, dec, z, result, produced, eaten>>

\* write() fails with EINTR: nothing is accepted.
FlushIntr ==
  /\ pc = "flush"
  /\ dst.wi # 0
  /\ wr' = [wr EXCEPT !.intr = TRUE]
  /\ dst' = FlushDone
  /\ pc' = "dispatch"
  /\ ev' = "write:EINTR"
  /\ offered' = offered \o SubSeq(dst.data, 1, dst.wi)
  /\ UNCHANGED <<drained, params, pos, src, dec, z, result, sunk, produced, eaten>>

\* write() fails with another error: nothing is accepted.
FlushErr ==
  /\ pc = "flush"
  /\ dst.wi # 0
  /\ wr' = [wr EXCEPT !.err = TRUE]
  /\ dst' = FlushDone
  /\ pc' = "dispatch"
  /\ ev' = "write:error"
  /\ offered' = offered \o SubSeq(dst.data, 1, dst.wi)
  /\ UNCHANGED <<drained, params, pos, src, dec, z, result, sunk, produced, eaten>>

(***************************************************************************)
(* Lines 125-131: act on the decoder status.                               *)
(***************************************************************************)
DispatchShortRead ==
  /\ pc = "dispatch"
  /\ z = ShortRead
  /\ pc' = "compact"
  /\ UNCHANGED <<offered, drained, params, pos, src, dst, dec, z, result, sunk, produced, eaten,
                 ev, wr>>

\* DispatchShortWrite that leaves the inner loop as a short read does.
DispatchShortWrite_break ==
  /\ pc = "dispatch"
  /\ z = ShortWrite
  /\ pc' = "compact"
  /\ UNCHANGED <<offered, drained, params, pos, src, dst, dec, z, result, sunk, produced, eaten,
                 ev, wr>>

DispatchShortWrite ==
  /\ pc = "dispatch"
  /\ z = ShortWrite
  /\ pc' = "decode"
  /\ UNCHANGED <<offered, drained, params, pos, src, dst, dec, z, result, sunk, produced, eaten,
                 ev, wr>>

\* DispatchReturn that drops the status and reports success.
DispatchReturn_null ==
  /\ pc = "dispatch"
  /\ z # ShortRead
  /\ z # ShortWrite
  /\ pc' = "done"
  /\ result' = StatusOk
  /\ UNCHANGED <<offered, drained, params, pos, src, dst, dec, z, sunk, produced, eaten, ev, wr>>

\* DispatchReturn that loops on a status that is not an error.
DispatchReturn_loop ==
  /\ pc = "dispatch"
  /\ z # ShortRead
  /\ z # ShortWrite
  /\ IF z \in FatalStatuses
     THEN pc' = "done" /\ result' = z
     ELSE pc' = "decode" /\ UNCHANGED result
  /\ UNCHANGED <<offered, drained, params, pos, src, dst, dec, z, sunk, produced, eaten, ev, wr>>

DispatchReturn ==
  /\ pc = "dispatch"
  /\ z # ShortRead
  /\ z # ShortWrite
  /\ pc' = "done"
  /\ result' = z
  /\ UNCHANGED <<offered, drained, params, pos, src, dst, dec, z, sunk, produced, eaten, ev, wr>>

(***************************************************************************)
(* Lines 134-137: compact(&src); if (src.meta.wi == src.data.len) return   *)
(* "internal error: no I/O progress possible".                             *)
(***************************************************************************)
\* Compact without the test of lines 135-137.
Compact_nocheck ==
  /\ pc = "compact"
  /\ src' = BufferCompact(src)
  /\ pc' = "read"
  /\ UNCHANGED <<offered, drained, params, pos, dst, dec, z, result, sunk, produced, eaten, ev, wr>>

\* Compact that first marks src consumed, as lines 121-122 do for dst.
Compact_discard ==
  /\ pc = "compact"
  /\ src' = BufferCompact([src EXCEPT !.ri = src.wi])
  /\ IF src'.wi = srcCap
     THEN pc' = "done" /\ result' = NoProgress
     ELSE pc' = "read" /\ UNCHANGED result
  /\ UNCHANGED <<offered, drained, params, pos, dst, dec, z, sunk, produced, eaten, ev, wr>>

\* Compact with the test of line 135 made before the compaction.
Compact_precheck ==
  /\ pc = "compact"
  /\ src' = BufferCompact(src)
  /\ IF src.wi = srcCap
     THEN pc' = "done" /\ result' = NoProgress
     ELSE pc' = "read" /\ UNCHANGED result
  /\ UNCHANGED <<offered, drained, params, pos, dst, dec, z, sunk, produced, eaten, ev, wr>>

Compact ==
  /\ pc = "compact"
  /\ src' = BufferCompact(src)
  /\ IF src'.wi = srcCap
     THEN pc' = "done" /\ result' = NoProgress
     ELSE pc' = "read" /\ UNCHANGED result
  /\ UNCHANGED <<offered, drained, params, pos, dst, dec, z, sunk, produced, eaten, ev, wr>>

Next ==
  \/ ReadIntr
  \/ ReadErr
  \/ ReadData
  \/ ReadEof
  \/ Decode
  \/ FlushNothing
  \/ FlushWrite
  \/ FlushIntr
  \/ FlushErr
  \/ DispatchShortRead
  \/ DispatchShortWrite
  \/ DispatchReturn
  \/ Compact

Spec == Init /\ [][Next]_vars

\* The pump is one sequential thread: a step that can be taken is taken.
FairSpec == Spec /\ WF_vars(Next)

TypeOK ==
  /\ pos \in 0..Len(stream)
  /\ src.ri \in 0..srcCap /\ src.wi \in 0..srcCap
  /\ dst.ri \in 0..dstCap /\ dst.wi \in 0..dstCap
  /\ pc \in {"read", "decode", "flush", "dispatch", "compact", "done"}

(***************************************************************************)
(* Reference decoding of a whole stream, independent of buffers, reads and *)
(* writes: the bytes the format assigns to the stream and the status the   *)
(* decoder ends with.  A reader whose capacity is below Lookahead can      *)
(* never get past a RUN token; a stream that ends before END is truncated, *)
(* which a strict decoder reports and a lenient one waits on forever.      *)
(***************************************************************************)
Waiting == "waits for input"

RECURSIVE RefDecode(_, _, _, _)
RefDecode(in, out, cap, strict) ==
  LET truncated == [out |-> out,
                    res |-> IF strict THEN UnexpectedEOF ELSE Waiting]
  IN
  IF in = <<>> THEN truncated
  ELSE IF Head(in) = END THEN [out |-> out, res |-> StatusOk]
  ELSE IF Head(in) = NOTE THEN [out |-> out, res |-> NoteStatus]
  ELSE IF Head(in) = LIT THEN RefDecode(Tail(in), Append(out, LIT), cap, strict)
  ELSE IF cap < Lookahead THEN [out |-> out, res |-> NoProgress]
  ELSE IF Len(in) < Lookahead THEN truncated
  ELSE IF in[2] = END THEN [out |-> out, res |-> BadData]
  ELSE RefDecode(Tail(Tail(in)), out \o [i \in 1..RunLen |-> in[2]], cap, strict)

Done == pc = "done"
CleanSink == ~wr.short /\ ~wr.intr /\ ~wr.err

(***************************************************************************)
(* C1: output completeness under partial writes.  Outside the flush        *)
(* itself, and unless a write failed with an error, the bytes stdout       *)
(* accepted are exactly the bytes the decoder produced, also when stdout   *)
(* accepts fewer bytes than offered.                                       *)
(***************************************************************************)
C1_OutputComplete ==
  (pc # "flush" /\ ~wr.err /\ ~wr.intr) => sunk = produced

(***************************************************************************)
(* C5: write errors are fatal.  Once a write failed with an error other    *)
(* than EINTR the pump neither reads, decodes nor compacts again, and it   *)
(* returns that error.                                                     *)
(***************************************************************************)
C5_WriteErrorFatal ==
  wr.err => /\ pc \notin {"read", "decode", "compact"}
            /\ (Done => result = ErrIO)

(***************************************************************************)
(* C6: interrupt transparency.  A run whose only I/O trouble is EINTR (no  *)
(* short write, no read or write error) ends with the output and result of *)
(* the interrupt-free run, which are those of the reference decoding.      *)
(***************************************************************************)
C6_InterruptTransparent ==
  (Done /\ ~wr.short /\ ~wr.err /\ result # ErrIO) =>
    /\ sunk = RefDecode(stream, <<>>, srcCap, eofStrict).out
    /\ result = RefDecode(stream, <<>>, srcCap, eofStrict).res

(***************************************************************************)
(* C7: chunking independence.  Whatever sizes the successful reads have,   *)
(* a finished run has delivered the output and returns the result that the *)
(* stream, the decoder and the capacities determine.                       *)
(***************************************************************************)
C7_ChunkingIndependent ==
  LET ref == RefDecode(stream, <<>>, srcCap, eofStrict)
  IN  (Done /\ result # ErrIO) => <<sunk, result>> = <<ref.out, ref.res>>

(***************************************************************************)
(* C8: small-buffer equivalence.  With capacities of at least Lookahead, a *)
(* finished run has delivered the output and returns the result of the     *)
(* stream alone: they do not depend on srcCap or dstCap.                   *)
(***************************************************************************)
C8_CapacityIndependent ==
  LET ref == RefDecode(stream, <<>>, Lookahead, eofStrict)
  IN  (srcCap >= Lookahead /\ Done /\ result # ErrIO) =>
        (sunk = ref.out /\ result = ref.res)

\* What C6, C7 and C8 come to when stdout takes every write in full.
FullWriteRun ==
  LET ref == RefDecode(stream, <<>>, srcCap, eofStrict)
  IN  (Done /\ CleanSink /\ result # ErrIO) =>
        (sunk = ref.out /\ result = ref.res)

(***************************************************************************)
(* C2: progress guarantee.  A compaction that leaves src.wi = capacity     *)
(* ends the pump with the no-progress result; and when the capacity is     *)
(* below the decoder's look-ahead and the stream starts with a token that  *)
(* needs it, the pump ends with that result unless a read fails.           *)
(***************************************************************************)
Starved == srcCap < Lookahead /\ stream # <<>> /\ Head(stream) = RUN

C2_NoProgressStep ==
  [][(pc = "compact" /\ src'.wi = srcCap) =>
       (pc' = "done" /\ result' = NoProgress)]_vars

C2_Progress ==
  /\ C2_NoProgressStep
  /\ Starved ~> (Done /\ result \in {NoProgress, ErrIO})
  /\ [](Starved /\ Done /\ result # ErrIO => result = NoProgress)

C2_Witness ==
  /\ Done /\ result = NoProgress
  /\ Starved /\ src.ri = 0 /\ src.wi = srcCap /\ ~src.closed /\ z = ShortRead

(***************************************************************************)
(* C3, as claimed: the pump returns success only when the source buffer is *)
(* closed, the last decoder status was short read and nothing is pending.  *)
(***************************************************************************)
C3_SuccessOnlyAtCleanEof ==
  (Done /\ result = StatusOk) =>
    (src.closed /\ z = ShortRead /\ src.ri = src.wi)

(***************************************************************************)
(* C3, amended: the pump ends in one of three ways: a read error; the      *)
(* no-progress result after a short read and a compaction that left the    *)
(* buffer full; or the status of the last decoder call, which is then      *)
(* neither short read nor short write.  Success is that third way with the *)
(* status ok, whether or not the source buffer is closed or empty.         *)
(***************************************************************************)
C3_ExitCondition ==
  /\ ~Done => result = NoStatus
  /\ Done =>
       \/ result = ErrIO /\ ev = "read:error"
       \/ result = NoProgress /\ z = ShortRead /\ src.ri = 0 /\ src.wi = srcCap
       \/ result = z /\ z \notin {ShortRead, ShortWrite, NoStatus}

C3_Witness ==
  Done /\ result = StatusOk /\ ~src.closed /\ src.ri < src.wi

(***************************************************************************)
(* C4: end-of-input is terminal for refilling.  Once the closed flag is    *)
(* set the pump is never again about to call read().                       *)
(***************************************************************************)
C4_NoReadAfterEof == src.closed => pc # "read"

(***************************************************************************)
(* C9: truncated stream.  When the input ends before the decoder has seen  *)
(* the end of the stream, the pump does not keep running: it terminates,   *)
(* and with a decode error (a read that fails after the end of the input   *)
(* is not held against it).                                                *)
(***************************************************************************)
Truncated == RefDecode(stream, <<>>, srcCap, TRUE).res = UnexpectedEOF

C9_TruncatedIsFatal ==
  (Truncated /\ src.closed) ~> (Done /\ result \in FatalStatuses \cup {ErrIO})

(***************************************************************************)
(* C10: read errors and decoder errors are fatal, and the first one wins.  *)
(* A failed read ends the pump with the read error.  After a decoder error *)
(* the pump only flushes and returns that error: it is never again about   *)
(* to read, decode or compact.                                             *)
(***************************************************************************)
C10_FirstFatalWins ==
  /\ ev = "read:error" => (Done /\ result = ErrIO)
  /\ z \in FatalStatuses =>
       /\ pc \in {"flush", "dispatch", "done"}
       /\ Done => result = z

C10_Witness ==
  Done /\ ev = "read:error" /\ result = ErrIO /\ produced # <<>> /\ z = ShortRead

(***************************************************************************)
(* C11: input fidelity.  The bytes the decoder consumed so far, followed   *)
(* by the pending bytes of the source buffer, are exactly the bytes of the *)
(* stream that read() has returned so far, in order.                       *)
(***************************************************************************)
C11_InputFidelity ==
  eaten \o Pending(src) = SubSeq(stream, 1, pos)

C11_Witness ==
  /\ pc = "decode" /\ ev = "read:data"
  /\ eaten # <<>> /\ src.ri = 0 /\ src.wi = 2 /\ pos = 3

C13_Cursors ==
  /\ 0 <= src.ri /\ src.ri <= src.wi /\ src.wi <= srcCap
  /\ 0 <= dst.ri /\ dst.ri <= dst.wi /\ dst.wi <= dstCap
  /\ Len(src.data) = srcCap /\ Len(dst.data) = dstCap

C13_Witness ==
  /\ pc = "flush"
  /\ 0 < src.ri /\ src.ri < src.wi /\ src.wi = srcCap
  /\ dst.wi = dstCap

(***************************************************************************)
(* C14: maximal destination free region.  Whenever the decoder is about to *)
(* be called the destination buffer is empty, ri = wi = 0, so the decoder  *)
(* is offered the whole capacity.                                          *)
(***************************************************************************)
C14_DstEmptyAtDecode ==
  pc = "decode" => (dst.ri = 0 /\ dst.wi = 0)

C14_Witness ==
  pc = "decode" /\ z = ShortWrite /\ produced # <<>> /\ dst.wi = 0

(***************************************************************************)
(* C15: on short write the decoder is called again at once.  From the      *)
(* decoder step that answered short write up to the next decoder call, the *)
(* pump only flushes: the source buffer and the input position do not      *)
(* change and the pump neither compacts nor reads.                         *)
(***************************************************************************)
C15_ShortWriteLoops ==
  [][(z = ShortWrite /\ pc \in {"flush", "dispatch"}) =>
       /\ src' = src
       /\ pos' = pos
       /\ pc' = IF pc = "flush" THEN "dispatch" ELSE "decode"]_vars

C15_Witness ==
  /\ pc = "decode" /\ z = ShortWrite
  /\ ev \in {"write:data", "write:EINTR", "write:error"}
  /\ src.ri < src.wi

(***************************************************************************)
(* C16, as claimed: after a status that is neither an error nor short read *)
(* nor short write, the pump flushes and calls the decoder again.          *)
(***************************************************************************)
OtherStatuses == {StatusOk, NoteStatus}

C16_ProgressLoops ==
  [][(pc = "dispatch" /\ z \in OtherStatuses) => pc' = "decode"]_vars

(***************************************************************************)
(* C16, amended: after a status that is neither short read nor short       *)
(* write, also one that is not an error, the pump flushes and then         *)
(* returns that status; only short write makes it call the decoder again.  *)
(***************************************************************************)
C16_OtherStatusReturns ==
  /\ [][(pc = "dispatch" /\ z \in OtherStatuses) =>
          (pc' = "done" /\ result' = z)]_vars
  /\ [][pc' = "decode" =>
          (pc = "read" \/ (pc = "dispatch" /\ z = ShortWrite))]_vars

C16_Witness ==
  Done /\ z = NoteStatus /\ result = NoteStatus /\ produced # <<>>

(***************************************************************************)
(* C17: source compaction after short read.  On short read the pump goes   *)
(* to the compaction, and the compaction leaves ri = 0, wi = old wi - old  *)
(* ri, the same pending bytes and the same closed flag; the pump is never  *)
(* about to read with ri other than 0.                                     *)
(***************************************************************************)
C17_CompactAfterShortRead ==
  /\ [][(pc = "dispatch" /\ z = ShortRead) => pc' = "compact"]_vars
  /\ [][pc = "compact" =>
          /\ src'.ri = 0
          /\ src'.wi = src.wi - src.ri
          /\ Pending(src') = Pending(src)
          /\ src'.closed = src.closed]_vars
  /\ [](pc = "read" => src.ri = 0)

C17_Witness ==
  /\ pc = "read" /\ stream = <<LIT, RUN>> /\ srcCap = 2
  /\ src.ri = 0 /\ src.wi = 1 /\ src.data = <<RUN, RUN>>

(***************************************************************************)
(* C18: an interrupted read changes nothing.  A read that fails with EINTR *)
(* leaves both buffers, the decoder, the input position and the output as  *)
(* they were, does not end the pump and does not close the source buffer:  *)
(* the pump is about to read again into the same free region.              *)
(***************************************************************************)
C18_ReadIntrIsNoop ==
  /\ [][ev' = "read:EINTR" =>
          /\ pc = "read" /\ pc' = "read"
          /\ src' = src /\ dst' = dst /\ dec' = dec /\ z' = z
          /\ pos' = pos /\ result' = result
          /\ sunk' = sunk /\ offered' = offered /\ produced' = produced
          /\ eaten' = eaten]_vars
  /\ [](ev = "read:EINTR" => (pc = "read" /\ result = NoStatus))

C18_Witness ==
  /\ ev = "read:EINTR" /\ pc = "read"
  /\ src.wi > 0 /\ eaten # <<>> /\ ~src.closed

(***************************************************************************)
(* C19: reads always have room.  Whenever the pump is about to read, the   *)
(* free region is not empty; the closed flag is set only when the whole    *)
(* stream has been read, and once set it stays set.                        *)
(***************************************************************************)
C19_ReadsHaveRoom ==
  /\ [](pc = "read" => src.wi < srcCap)
  /\ [](src.closed => pos = Len(stream))
  /\ [][src.closed => src'.closed]_vars

C19_Witness ==
  /\ ev = "read:eof" /\ src.closed
  /\ pos = Len(stream) /\ pos > 0 /\ src.wi > 0

(***************************************************************************)
(* C20: no false no-progress.  The pump returns the no-progress result     *)
(* only when the source buffer is full of pending bytes from offset 0 and  *)
(* the decoder consumed nothing since the last successful read.            *)
(***************************************************************************)
C20_NoFalseNoProgress ==
  (Done /\ result = NoProgress) =>
    /\ src.ri = 0 /\ src.wi = srcCap
    /\ Len(Pending(src)) = srcCap
    /\ drained = 0
    /\ z = ShortRead

C20_Witness ==
  Done /\ result = NoProgress /\ drained = 0 /\ eaten # <<>>

====
